---- MODULE Spec2Model ----
(***************************************************************************)
(* Model of the TPU write stage (src/write_stage.rs): the worker thread    *)
(* "solana-writer" that repeatedly runs write_and_send_entries and then    *)
(* send_leader_vote, the vote responder thread, and Service::join.         *)
(*                                                                         *)
(* The channels, the ledger writer, the crdt and send_leader_vote are      *)
(* collaborators: the model keeps what the stage can observe of them (the  *)
(* content of a channel, the result of a call) and draws their results     *)
(* nondeterministically.                                                   *)
(***************************************************************************)
EXTENDS Naturals, Sequences, FiniteSets, TLC

\* ---------------------------------------------------------------- bounds
MaxBatches == 2      \* batches the upstream stage sends before it stops
MaxTime    == 1      \* largest timestamp send_leader_vote stores

VARIABLES
    incoming,        \* entry_receiver's channel: batches sent, not yet received
    sendersOpen,     \* some upstream Sender of the entry channel is alive
    sent,            \* number of batches the upstream stage has sent
    downstreamOpen,  \* entry_receiver_forward (returned by new) is alive
    forwarded,       \* batches sent on entry_sender, in order
    pc,              \* position of the solana-writer thread
    ventries,        \* write_and_send_entries: let mut ventries
    cur,             \* write_and_send_entries: let entries (loop body)
    i, n,            \* for _ in 0..ventries.len(): index and bound
    result,          \* what write_and_send_entries returned to the loop body
    directory,       \* votes inserted into the crdt
    crdtLock,        \* holder of the crdt RwLock write side
    ledger,          \* batches write_entries appended, in order
    writeCalls,      \* every write_entries call: batch id and outcome
    mergeCalls,      \* every insert_votes call: the batch
    popped,          \* every ventries.pop(): the batch
    dropped,         \* ids of batches still in ventries when it was dropped
    atRecv,          \* channel content left behind by the round's recv_timeout
    voteCalls,       \* send_leader_vote calls of the current loop iteration
    voteErr,         \* the iteration's send_leader_vote call returned Err
    last_vote,
    last_valid_validator_timestamp,
    voteSenderOpen,  \* vote_blob_sender is alive
    responder,       \* state of the t_responder thread
    joinPc           \* position of a caller of Service::join

vars == <<incoming, sendersOpen, sent, downstreamOpen, forwarded, pc, ventries,
          cur, i, n, result, directory, crdtLock, ledger, writeCalls,
          mergeCalls, popped, dropped, atRecv, voteCalls, voteErr, last_vote,
          last_valid_validator_timestamp, voteSenderOpen, responder,
          joinPc>>

\* what the worker thread does not touch
envVars    == <<sendersOpen, sent, downstreamOpen>>
voteVars   == <<last_vote, last_valid_validator_timestamp>>
otherVars  == <<voteSenderOpen, responder, joinPc>>
logVars    == <<directory, ledger, writeCalls, mergeCalls, popped, dropped,
               forwarded>>
roundVars  == <<ventries, cur, i, n, atRecv>>

NoBatch == [id |-> 0, len |-> 0]

\* A batch (Vec<Entry>) as the stage sees it: its identity and whether
\* entries.is_empty() (len 0) or not (len 1), which is all the stage reads of
\* it besides its counters.  Every entry carries one vote transaction, so
\* that the empty batch has no vote and every other batch has one.
BatchesWithId(k) == { [id |-> k, len |-> l] : l \in {0, 1} }

Ids(s) == { s[k].id : k \in 1..Len(s) }
Count(s, x) == Cardinality({ k \in 1..Len(s) : s[k].id = x })

Init ==
    /\ incoming = <<>>
    /\ sendersOpen = TRUE
    /\ sent = 0
    /\ downstreamOpen = TRUE
    /\ forwarded = <<>>
    /\ pc = "recv"
    /\ ventries = <<>>
    /\ cur = NoBatch
    /\ i = 0
    /\ n = 0
    /\ result = "None"
    /\ directory = {}
    /\ crdtLock = "free"
    /\ ledger = <<>>
    /\ writeCalls = <<>>
    /\ mergeCalls = <<>>
    /\ popped = <<>>
    /\ dropped = {}
    /\ atRecv = <<>>
    /\ voteCalls = 0
    /\ voteErr = FALSE
    /\ last_vote = 0
    /\ last_valid_validator_timestamp = 0
    /\ voteSenderOpen = TRUE
    /\ responder = "running"
    /\ joinPc = "idle"

\* ------------------------------------------------------------ environment
\* The upstream stage sends one more batch on the entry channel.
UpstreamSend ==
    /\ sendersOpen
    /\ sent < MaxBatches
    /\ \E b \in BatchesWithId(sent + 1) : incoming' = Append(incoming, b)
    /\ sent' = sent + 1
    /\ UNCHANGED <<sendersOpen, downstreamOpen, pc, result, crdtLock, voteCalls, voteErr>>
    /\ UNCHANGED <<roundVars, logVars, voteVars, otherVars>>

\* Every upstream Sender is dropped.
UpstreamClose ==
    /\ sendersOpen
    /\ sendersOpen' = FALSE
    /\ UNCHANGED <<incoming, sent, downstreamOpen, pc, result, crdtLock, voteCalls, voteErr>>
    /\ UNCHANGED <<roundVars, logVars, voteVars, otherVars>>

\* The holder of entry_receiver_forward drops it.
DownstreamClose ==
    /\ downstreamOpen
    /\ downstreamOpen' = FALSE
    /\ UNCHANGED <<incoming, sendersOpen, sent, pc, result, crdtLock, voteCalls, voteErr>>
    /\ UNCHANGED <<roundVars, logVars, voteVars, otherVars>>

\* Another component takes and releases the crdt lock.
OtherLock ==
    /\ crdtLock = "free"
    /\ crdtLock' = "other"
    /\ UNCHANGED <<incoming, pc, result, voteCalls, voteErr>>
    /\ UNCHANGED <<envVars, roundVars, logVars, voteVars, otherVars>>

OtherUnlock ==
    /\ crdtLock = "other"
    /\ crdtLock' = "free"
    /\ UNCHANGED <<incoming, pc, result, voteCalls, voteErr>>
    /\ UNCHANGED <<envVars, roundVars, logVars, voteVars, otherVars>>

\* ------------------------------------------------- write_and_send_entries
\* (mutant) the round takes the newest batch of the channel and no other
RecvBatchTakesLast ==
    /\ pc = "recv"
    /\ incoming # <<>>
    /\ ventries' = <<incoming[Len(incoming)]>>
    /\ incoming' = SubSeq(incoming, 1, Len(incoming) - 1)
    /\ atRecv' = <<>>
    /\ voteCalls' = 0
    /\ voteErr' = FALSE
    /\ n' = 1
    /\ i' = 0
    /\ pc' = "loop"
    /\ UNCHANGED <<cur, result, crdtLock>>
    /\ UNCHANGED <<envVars, logVars, voteVars, otherVars>>

\* entry_receiver.recv_timeout(Duration::new(1, 0))? yields a batch.
RecvBatch ==
    /\ pc = "recv"
    /\ incoming # <<>>
    /\ ventries' = <<Head(incoming)>>
    /\ incoming' = Tail(incoming)
    /\ atRecv' = Tail(incoming)
    /\ voteCalls' = 0
    /\ voteErr' = FALSE
    /\ pc' = "drain"
    /\ UNCHANGED <<cur, i, n, result, crdtLock>>
    /\ UNCHANGED <<envVars, logVars, voteVars, otherVars>>

\* (mutant) a timed-out round stamps last_vote
RecvTimeoutTouchesVote ==
    /\ pc = "recv"
    /\ incoming = <<>>
    /\ sendersOpen
    /\ result' = "Timeout"
    /\ atRecv' = <<>>
    /\ voteCalls' = 0
    /\ voteErr' = FALSE
    /\ last_vote' = MaxTime
    /\ pc' = "classify"
    /\ UNCHANGED <<incoming, ventries, cur, i, n, crdtLock>>
    /\ UNCHANGED last_valid_validator_timestamp
    /\ UNCHANGED <<envVars, logVars, otherVars>>

\* recv_timeout finds nothing for a second: ? returns RecvTimeoutError::Timeout.
RecvTimeout ==
    /\ pc = "recv"
    /\ incoming = <<>>
    /\ sendersOpen
    /\ result' = "Timeout"
    /\ atRecv' = <<>>
    /\ voteCalls' = 0
    /\ voteErr' = FALSE
    /\ pc' = "classify"
    /\ UNCHANGED <<incoming, ventries, cur, i, n, crdtLock>>
    /\ UNCHANGED <<envVars, logVars, voteVars, otherVars>>

\* (mutant) Disconnected is reported although batches are waiting
RecvDisconnectedEarly ==
    /\ pc = "recv"
    /\ ~sendersOpen
    /\ result' = "Disconnected"
    /\ atRecv' = <<>>
    /\ voteCalls' = 0
    /\ voteErr' = FALSE
    /\ pc' = "classify"
    /\ UNCHANGED <<incoming, ventries, cur, i, n, crdtLock>>
    /\ UNCHANGED <<envVars, logVars, voteVars, otherVars>>

\* The channel is empty and every Sender is gone: ? returns Disconnected.
RecvDisconnected ==
    /\ pc = "recv"
    /\ incoming = <<>>
    /\ ~sendersOpen
    /\ result' = "Disconnected"
    /\ atRecv' = <<>>
    /\ voteCalls' = 0
    /\ voteErr' = FALSE
    /\ pc' = "classify"
    /\ UNCHANGED <<incoming, ventries, cur, i, n, crdtLock>>
    /\ UNCHANGED <<envVars, logVars, voteVars, otherVars>>

\* while let Ok(more) = entry_receiver.try_recv(): one successful try_recv.
TryRecvOk ==
    /\ pc = "drain"
    /\ incoming # <<>>
    /\ ventries' = Append(ventries, Head(incoming))
    /\ incoming' = Tail(incoming)
    /\ UNCHANGED <<pc, cur, i, n, atRecv, result, crdtLock, voteCalls, voteErr>>
    /\ UNCHANGED <<envVars, logVars, voteVars, otherVars>>

\* (mutant) the drain gives up although a batch is waiting
TryRecvEndEarly ==
    /\ pc = "drain"
    /\ n' = Len(ventries)
    /\ i' = 0
    /\ pc' = "loop"
    /\ UNCHANGED <<incoming, ventries, cur, atRecv, result, crdtLock, voteCalls, voteErr>>
    /\ UNCHANGED <<envVars, logVars, voteVars, otherVars>>

\* try_recv fails (Empty or Disconnected): the while loop ends and
\* for _ in 0..ventries.len() fixes its bound.
TryRecvEnd ==
    /\ pc = "drain"
    /\ incoming = <<>>
    /\ n' = Len(ventries)
    /\ i' = 0
    /\ pc' = "loop"
    /\ UNCHANGED <<incoming, ventries, cur, atRecv, result, crdtLock, voteCalls, voteErr>>
    /\ UNCHANGED <<envVars, logVars, voteVars, otherVars>>

\* Vec::pop: the last element ...
PopBatch(v) == v[Len(v)]

\* (mutant) pop leaves the element in the vector
PopRestKeeps(v) == v

\* ... and the vector without it.
PopRest(v) == SubSeq(v, 1, Len(v) - 1)

\* write_and_send_entries returns r: its locals go out of scope, and the
\* batches still in ventries are dropped with it.
Return(r) ==
    /\ result' = r
    /\ dropped' = dropped \cup Ids(ventries)
    /\ ventries' = <<>>
    /\ cur' = NoBatch
    /\ i' = 0
    /\ n' = 0
    /\ atRecv' = <<>>
    /\ pc' = "classify"

\* One turn of the for loop: let entries = ventries.pop().unwrap(), or the
\* end of the loop and Ok(()).
LoopNext ==
    /\ pc = "loop"
    /\ IF i < n
         THEN /\ cur' = PopBatch(ventries)
              /\ ventries' = PopRest(ventries)
              /\ popped' = Append(popped, PopBatch(ventries))
              /\ i' = i + 1
              /\ pc' = "lock"
              /\ UNCHANGED <<n, result, atRecv, dropped>>
         ELSE /\ Return("Ok")
              /\ UNCHANGED popped
    /\ UNCHANGED <<incoming, crdtLock, voteCalls, voteErr>>
    /\ UNCHANGED <<directory, ledger, writeCalls, mergeCalls, forwarded>>
    /\ UNCHANGED <<envVars, voteVars, otherVars>>

\* crdt.write().unwrap(): the write side of the RwLock is taken.
LockCrdt ==
    /\ pc = "lock"
    /\ crdtLock = "free"
    /\ crdtLock' = "stage"
    /\ pc' = "insert"
    /\ UNCHANGED <<incoming, result, voteCalls, voteErr>>
    /\ UNCHANGED <<envVars, roundVars, logVars, voteVars, otherVars>>

\* entries.votes() of the batch: one vote for each of its entries
VotesOf(b) == { <<b.id, k>> : k \in 1..b.len }

\* (mutant) the votes are not inserted before the ledger write
InsertVotesSkipped ==
    /\ pc = "insert"
    /\ crdtLock' = "free"
    /\ pc' = "write"
    /\ UNCHANGED <<incoming, result, voteCalls, voteErr>>
    /\ UNCHANGED <<envVars, roundVars, logVars, voteVars, otherVars>>

\* (mutant) the lock guard outlives the statement
InsertVotesKeepsLock ==
    /\ pc = "insert"
    /\ directory' = directory \cup VotesOf(cur)
    /\ mergeCalls' = Append(mergeCalls, cur)
    /\ pc' = "write"
    /\ UNCHANGED <<incoming, result, crdtLock, voteCalls, voteErr>>
    /\ UNCHANGED <<ledger, writeCalls, popped, dropped, forwarded>>
    /\ UNCHANGED <<envVars, roundVars, voteVars, otherVars>>

\* (mutant) the votes of a batch are inserted twice
InsertVotesTwice ==
    /\ pc = "insert"
    /\ directory' = directory \cup VotesOf(cur)
    /\ mergeCalls' = Append(Append(mergeCalls, cur), cur)
    /\ crdtLock' = "free"
    /\ pc' = "write"
    /\ UNCHANGED <<incoming, result, voteCalls, voteErr>>
    /\ UNCHANGED <<ledger, writeCalls, popped, dropped, forwarded>>
    /\ UNCHANGED <<envVars, roundVars, voteVars, otherVars>>

\* .insert_votes(&votes); the lock guard is a temporary of the statement and
\* is dropped at its end.
InsertVotes ==
    /\ pc = "insert"
    /\ directory' = directory \cup VotesOf(cur)
    /\ mergeCalls' = Append(mergeCalls, cur)
    /\ crdtLock' = "free"
    /\ pc' = "write"
    /\ UNCHANGED <<incoming, result, voteCalls, voteErr>>
    /\ UNCHANGED <<ledger, writeCalls, popped, dropped, forwarded>>
    /\ UNCHANGED <<envVars, roundVars, voteVars, otherVars>>

\* (mutant) a failed write_entries is not propagated
WriteEntriesIgnoresErr ==
    /\ pc = "write"
    /\ \E ok \in BOOLEAN :
         /\ writeCalls' = Append(writeCalls, [id |-> cur.id, ok |-> ok])
         /\ ledger' = IF ok THEN Append(ledger, cur) ELSE ledger
    /\ pc' = "send"
    /\ UNCHANGED <<incoming, crdtLock, voteCalls, voteErr, result>>
    /\ UNCHANGED <<directory, mergeCalls, popped, dropped, forwarded>>
    /\ UNCHANGED <<envVars, roundVars, voteVars, otherVars>>

\* (mutant) a failed write_entries skips the batch and the loop goes on
WriteEntriesSkipsBatch ==
    /\ pc = "write"
    /\ \E ok \in BOOLEAN :
         /\ writeCalls' = Append(writeCalls, [id |-> cur.id, ok |-> ok])
         /\ ledger' = IF ok THEN Append(ledger, cur) ELSE ledger
         /\ pc' = IF ok THEN "send" ELSE "loop"
    /\ UNCHANGED <<incoming, crdtLock, voteCalls, voteErr, result>>
    /\ UNCHANGED <<directory, mergeCalls, popped, dropped, forwarded>>
    /\ UNCHANGED <<envVars, roundVars, voteVars, otherVars>>

\* (mutant) a failed write_entries takes the batch's votes back
WriteEntriesRollsBack ==
    /\ pc = "write"
    /\ \E ok \in BOOLEAN :
         /\ writeCalls' = Append(writeCalls, [id |-> cur.id, ok |-> ok])
         /\ IF ok
              THEN /\ ledger' = Append(ledger, cur)
                   /\ pc' = "send"
                   /\ UNCHANGED <<roundVars, result, dropped, directory>>
              ELSE /\ Return("Other")
                   /\ directory' = directory \ VotesOf(cur)
                   /\ UNCHANGED ledger
    /\ UNCHANGED <<incoming, crdtLock, voteCalls, voteErr>>
    /\ UNCHANGED <<mergeCalls, popped, forwarded>>
    /\ UNCHANGED <<envVars, voteVars, otherVars>>

\* ledger_writer.write_entries(entries.clone())?: the batch is appended, or
\* the call fails and ? returns the error.
WriteEntries ==
    /\ pc = "write"
    /\ \E ok \in BOOLEAN :
         /\ writeCalls' = Append(writeCalls, [id |-> cur.id, ok |-> ok])
         /\ IF ok
              THEN /\ ledger' = Append(ledger, cur)
                   /\ pc' = "send"
                   /\ UNCHANGED <<roundVars, result, dropped>>
              ELSE /\ Return("Other")
                   /\ UNCHANGED ledger
    /\ UNCHANGED <<incoming, crdtLock, voteCalls, voteErr>>
    /\ UNCHANGED <<directory, mergeCalls, popped, forwarded>>
    /\ UNCHANGED <<envVars, voteVars, otherVars>>

\* (mutant) the batch is sent without the is_empty test
ForwardAlways ==
    /\ pc = "send"
    /\ forwarded' = Append(forwarded, cur)
    /\ pc' = "loop"
    /\ UNCHANGED <<roundVars, result, dropped>>
    /\ UNCHANGED <<incoming, crdtLock, voteCalls, voteErr>>
    /\ UNCHANGED <<directory, ledger, writeCalls, mergeCalls, popped>>
    /\ UNCHANGED <<envVars, voteVars, otherVars>>

\* (mutant) a failed send is ignored and the loop goes on
ForwardIgnoresErr ==
    /\ pc = "send"
    /\ forwarded' = IF cur.len > 0 /\ downstreamOpen
                      THEN Append(forwarded, cur) ELSE forwarded
    /\ pc' = "loop"
    /\ UNCHANGED <<roundVars, result, dropped>>
    /\ UNCHANGED <<incoming, crdtLock, voteCalls, voteErr>>
    /\ UNCHANGED <<directory, ledger, writeCalls, mergeCalls, popped>>
    /\ UNCHANGED <<envVars, voteVars, otherVars>>

\* (mutant) the batch is put at the front of the downstream channel
ForwardPrepends ==
    /\ pc = "send"
    /\ IF cur.len = 0
         THEN /\ pc' = "loop"
              /\ UNCHANGED <<roundVars, result, dropped, forwarded>>
         ELSE IF downstreamOpen
           THEN /\ forwarded' = <<cur>> \o forwarded
                /\ pc' = "loop"
                /\ UNCHANGED <<roundVars, result, dropped>>
           ELSE /\ Return("Other")
                /\ UNCHANGED forwarded
    /\ UNCHANGED <<incoming, crdtLock, voteCalls, voteErr>>
    /\ UNCHANGED <<directory, ledger, writeCalls, mergeCalls, popped>>
    /\ UNCHANGED <<envVars, voteVars, otherVars>>

\* if !entries.is_empty() { entry_sender.send(entries)?; }: send fails when
\* the Receiver is gone and ? returns the SendError.
Forward ==
    /\ pc = "send"
    /\ IF cur.len = 0
         THEN /\ pc' = "loop"
              /\ UNCHANGED <<roundVars, result, dropped, forwarded>>
         ELSE IF downstreamOpen
           THEN /\ forwarded' = Append(forwarded, cur)
                /\ pc' = "loop"
                /\ UNCHANGED <<roundVars, result, dropped>>
           ELSE /\ Return("Other")
                /\ UNCHANGED forwarded
    /\ UNCHANGED <<incoming, crdtLock, voteCalls, voteErr>>
    /\ UNCHANGED <<directory, ledger, writeCalls, mergeCalls, popped>>
    /\ UNCHANGED <<envVars, voteVars, otherVars>>

\* ------------------------------------------------ the solana-writer loop
\* (mutant) a timeout ends the loop
AfterRoundBreakOnTimeout(r) ==
    IF r \in {"Disconnected", "Timeout"} THEN "done" ELSE "vote"

\* (mutant) a disconnected channel does not end the loop
AfterRoundNeverBreaks(r) == "vote"

\* (mutant) any error ends the loop
AfterRoundBreakOnOther(r) ==
    IF r \in {"Disconnected", "Other"} THEN "done" ELSE "vote"

\* (mutant) an error other than a timeout skips the leader vote
AfterRoundSkipsVote(r) ==
    IF r = "Disconnected" THEN "done"
    ELSE IF r = "Other" THEN "recv" ELSE "vote"

\* if let Err(e) = ... { match e { Disconnected => break, Timeout => (),
\* _ => { count; log } } }: where the thread goes after a round.
AfterRound(r) ==
    IF r = "Disconnected" THEN "done" ELSE "vote"

\* The match on the round's result.  Leaving the loop ends the closure, which
\* drops vote_blob_sender.
Classify ==
    /\ pc = "classify"
    /\ pc' = AfterRound(result)
    /\ voteSenderOpen' = (voteSenderOpen /\ pc' # "done")
    /\ UNCHANGED <<incoming, result, crdtLock, voteCalls, voteErr, responder, joinPc>>
    /\ UNCHANGED <<envVars, roundVars, logVars, voteVars>>

\* What one send_leader_vote call may do to the throttle state: nothing (it
\* is not yet time to vote, or the call fails), or a vote blob is put on the
\* vote channel, last_vote moves forward to the current time and the
\* validator timestamp to some later value or none.
VoteOutcomes ==
    { [ok |-> ok, lv |-> last_vote, lvt |-> last_valid_validator_timestamp] :
        ok \in BOOLEAN }
    \cup
    { [ok |-> TRUE, lv |-> a, lvt |-> b] :
        a \in (last_vote + 1)..MaxTime,
        b \in last_valid_validator_timestamp..MaxTime }

\* (mutant) an error of send_leader_vote ends the loop
SendLeaderVotePropagates ==
    /\ pc = "vote"
    /\ \E o \in VoteOutcomes :
         /\ last_vote' = o.lv
         /\ last_valid_validator_timestamp' = o.lvt
         /\ voteErr' = ~o.ok
         /\ pc' = IF o.ok THEN "recv" ELSE "done"
    /\ voteCalls' = voteCalls + 1
    /\ result' = "None"
    /\ UNCHANGED <<incoming, crdtLock>>
    /\ UNCHANGED <<envVars, roundVars, logVars, otherVars>>

\* if let Err(e) = send_leader_vote(..., &mut last_vote,
\* &mut last_valid_validator_timestamp) { count; log }, then the next turn
\* of the loop.
SendLeaderVote ==
    /\ pc = "vote"
    /\ \E o \in VoteOutcomes :
         /\ last_vote' = o.lv
         /\ last_valid_validator_timestamp' = o.lvt
         /\ voteErr' = ~o.ok
    /\ voteCalls' = voteCalls + 1
    /\ result' = "None"
    /\ pc' = "recv"
    /\ UNCHANGED <<incoming, crdtLock>>
    /\ UNCHANGED <<envVars, roundVars, logVars, otherVars>>

\* ------------------------------------------------------- vote responder
\* The responder thread sends the blobs it finds on the vote channel; once
\* the channel's Sender is gone and the channel is drained, it ends.
ResponderExit ==
    /\ responder = "running"
    /\ ~voteSenderOpen
    /\ responder' = "done"
    /\ UNCHANGED <<incoming, pc, result, crdtLock, voteCalls, voteErr>>
    /\ UNCHANGED <<voteSenderOpen, joinPc>>
    /\ UNCHANGED <<envVars, roundVars, logVars, voteVars>>

\* ---------------------------------------------------------- Service::join
\* thread_hdls = vec![t_responder, thread_hdl] is joined in that order.
JoinCall ==
    /\ joinPc = "idle"
    /\ joinPc' = "responder"
    /\ UNCHANGED <<incoming, pc, result, crdtLock, voteCalls, voteErr>>
    /\ UNCHANGED <<voteSenderOpen, responder>>
    /\ UNCHANGED <<envVars, roundVars, logVars, voteVars>>

JoinResponder ==
    /\ joinPc = "responder"
    /\ responder = "done"
    /\ joinPc' = "writer"
    /\ UNCHANGED <<incoming, pc, result, crdtLock, voteCalls, voteErr>>
    /\ UNCHANGED <<voteSenderOpen, responder>>
    /\ UNCHANGED <<envVars, roundVars, logVars, voteVars>>

JoinWriter ==
    /\ joinPc = "writer"
    /\ pc = "done"
    /\ joinPc' = "ok"
    /\ UNCHANGED <<incoming, pc, result, crdtLock, voteCalls, voteErr>>
    /\ UNCHANGED <<voteSenderOpen, responder>>
    /\ UNCHANGED <<envVars, roundVars, logVars, voteVars>>

\* -------------------------------------------------------- specifications
WriterStep ==
    \/ RecvBatch \/ RecvTimeout \/ RecvDisconnected
    \/ TryRecvOk \/ TryRecvEnd
    \/ LoopNext \/ LockCrdt \/ InsertVotes \/ WriteEntries \/ Forward
    \/ Classify \/ SendLeaderVote

Next ==
    \/ UpstreamSend
    \/ UpstreamClose
    \/ DownstreamClose
    \/ OtherLock
    \/ OtherUnlock
    \/ RecvBatch
    \/ RecvTimeout
    \/ RecvDisconnected
    \/ TryRecvOk
    \/ TryRecvEnd
    \/ LoopNext
    \/ LockCrdt
    \/ InsertVotes
    \/ WriteEntries
    \/ Forward
    \/ Classify
    \/ SendLeaderVote
    \/ ResponderExit
    \/ JoinCall
    \/ JoinResponder
    \/ JoinWriter

Spec == Init /\ [][Next]_vars

\* The threads are scheduled by the operating system and recv_timeout returns
\* after a second at the latest, so no enabled step of a thread is postponed
\* forever; the crdt lock is granted to the stage at some point although
\* other components keep taking it.
FairSpec ==
    /\ Init /\ [][Next]_vars
    /\ WF_vars(WriterStep)
    /\ SF_vars(LockCrdt)
    /\ WF_vars(OtherUnlock)
    /\ WF_vars(ResponderExit)
    /\ WF_vars(JoinResponder \/ JoinWriter)

\* ------------------------------------------------------------ properties
\* Batch ids number the batches in the order they were put on the incoming
\* channel: the batch with the smaller id was received first.

\* the batches popped so far in the round in progress
RoundPopped == SubSeq(popped, Len(popped) - i + 1, Len(popped))

\* the elements of s that belong to the batches in S appear in arrival order
InArrivalOrder(s, S) ==
    \A a, b \in 1..Len(s) :
        (a < b /\ s[a].id \in S /\ s[b].id \in S) => s[a].id < s[b].id

OkWrites == { writeCalls[k].id : k \in { j \in 1..Len(writeCalls) : writeCalls[j].ok } }
FailedWrites == { writeCalls[k].id : k \in { j \in 1..Len(writeCalls) : ~writeCalls[j].ok } }

\* C1: within one round, the write_entries calls and the sends on the
\* downstream channel follow the order in which the round's batches were
\* received.
C1_FirstReceivedOrder ==
    /\ InArrivalOrder(writeCalls, Ids(RoundPopped))
    /\ InArrivalOrder(forwarded, Ids(RoundPopped))

\* C2: every batch on the downstream channel was written successfully, and
\* that write had completed in the state before the batch was sent; a batch
\* whose write failed or was not made is not on the downstream channel.
C2_DurabilityBeforeForward ==
    /\ [](/\ Ids(forwarded) \subseteq OkWrites
          /\ Ids(forwarded) \subseteq Ids(ledger)
          /\ Ids(forwarded) \cap FailedWrites = {})
    /\ [][\A k \in 1..Len(forwarded') :
            k > Len(forwarded) => /\ forwarded'[k].id \in OkWrites
                                  /\ forwarded'[k].id \in Ids(ledger)]_vars

\* one write failed, and a batch written successfully was forwarded
C2_Witness ==
    /\ FailedWrites # {}
    /\ forwarded # <<>>

\* C3: for each batch the steps are insert_votes, then write_entries, then
\* send: a write_entries call is made only for a batch whose votes are
\* already merged, a send only for a batch already merged and written, and
\* no merge follows the batch's write or send.
C3_MergeWriteSendOrder ==
    /\ [](/\ Ids(writeCalls) \subseteq Ids(mergeCalls)
          /\ Ids(forwarded) \subseteq Ids(writeCalls)
          /\ \A k \in 1..Len(mergeCalls) :
                VotesOf(mergeCalls[k]) \subseteq directory)
    /\ [][/\ \A k \in 1..Len(writeCalls') :
               k > Len(writeCalls) =>
                  /\ writeCalls'[k].id \in Ids(mergeCalls)
                  /\ writeCalls'[k].id \notin Ids(forwarded)
          /\ \A k \in 1..Len(forwarded') :
               k > Len(forwarded) =>
                  /\ forwarded'[k].id \in Ids(mergeCalls)
                  /\ forwarded'[k].id \in Ids(writeCalls)
          /\ \A k \in 1..Len(mergeCalls') :
               k > Len(mergeCalls) =>
                  /\ mergeCalls'[k].id \notin Ids(writeCalls)
                  /\ mergeCalls'[k].id \notin Ids(forwarded)
                  /\ VotesOf(mergeCalls'[k]) \subseteq directory']_vars

\* a batch with a vote was forwarded, its vote is in the directory
C3_Witness ==
    \E k \in 1..Len(forwarded) :
        /\ VotesOf(forwarded[k]) # {}
        /\ VotesOf(forwarded[k]) \subseteq directory

\* batches that were put in a pending queue and are no longer in one
LeftQueue == { k \in 1..sent : k \notin Ids(incoming) /\ k \notin Ids(ventries) }

\* sends that failed: written, not empty, not forwarded and not about to be
FailedSends ==
    { ledger[k].id : k \in { j \in 1..Len(ledger) :
        /\ ledger[j].len > 0
        /\ ledger[j].id \notin Ids(forwarded)
        /\ ~(pc = "send" /\ cur.id = ledger[j].id) } }

\* C4 as stated: no batch is forwarded or written twice, and every batch
\* that was in the pending queue was popped from it exactly once.
C4_ExactlyOnce ==
    /\ \A k \in 1..sent :
          /\ Count(forwarded, k) <= 1
          /\ Count(writeCalls, k) <= 1
          /\ Count(ledger, k) <= 1
    /\ \A k \in LeftQueue : Count(popped, k) = 1

\* C4 amended: no batch is forwarded or written twice and none is popped
\* twice; a batch that was in the pending queue was either popped once or
\* dropped with the queue, unpopped, by a round that returned an error, and
\* a batch never returns to a queue it has left.
C4_AtMostOnce ==
    /\ [](/\ \A k \in 1..sent :
               /\ Count(forwarded, k) <= 1
               /\ Count(writeCalls, k) <= 1
               /\ Count(ledger, k) <= 1
               /\ Count(popped, k) <= 1
               /\ Count(ventries, k) + Count(incoming, k) <= 1
          /\ \A k \in LeftQueue :
               (Count(popped, k) = 1) # (k \in dropped)
          /\ dropped # {} => (FailedWrites # {} \/ FailedSends # {}))
    /\ [][/\ LeftQueue \subseteq LeftQueue'
          /\ result' = "Ok" => dropped' = dropped]_vars

\* a round was cut short by a failed write with a batch still pending, and
\* another round ran to its end
C4_Witness ==
    /\ dropped # {}
    /\ \E k \in LeftQueue : Count(popped, k) = 1 /\ k \in Ids(ledger)

\* C5: every batch on the downstream channel has entries; an empty batch
\* goes through insert_votes and write_entries like any other, and the send
\* step leaves the downstream channel as it is.
C5_EmptyBatchSuppression ==
    /\ [](/\ \A k \in 1..Len(forwarded) : forwarded[k].len > 0
          /\ \A k \in 1..Len(popped) :
               popped[k].len = 0 =>
                 /\ popped[k].id \in Ids(mergeCalls)
                      \/ (cur = popped[k] /\ pc \in {"lock", "insert"})
                 /\ popped[k].id \in Ids(writeCalls)
                      \/ (cur = popped[k] /\ pc \in {"lock", "insert", "write"}))
    /\ [][(pc = "send" /\ cur.len = 0) =>
            (forwarded' = forwarded /\ pc' \in {"send", "loop"})]_vars

\* an empty batch was written to the ledger and its send step is over
C5_Witness ==
    \E k \in 1..Len(ledger) :
        /\ ledger[k].len = 0
        /\ ledger[k] # cur
        /\ ledger[k].id \notin Ids(forwarded)

\* C6: the writer thread leaves its loop only from the match on a round
\* that returned Disconnected; after Ok, Timeout or another error it goes on
\* to the leader vote, and after the leader vote, failed or not, to the
\* next round.
C6_ExitOnlyOnDisconnected ==
    /\ [](pc = "done" => result = "Disconnected")
    /\ [][/\ (pc' = "done" /\ pc # "done") =>
                (pc = "classify" /\ result = "Disconnected")
          /\ (pc = "classify" /\ result \in {"Ok", "Timeout", "Other"}) =>
                pc' \in {"classify", "vote"}
          /\ pc = "vote" => pc' \in {"vote", "recv"}
          /\ pc = "done" => pc' = "done"]_vars

\* a write failed, the following leader vote failed, and the loop is at the
\* start of another round
C6_Witness ==
    /\ pc = "recv"
    /\ voteErr
    /\ FailedWrites # {}

\* C7: once the upstream senders are gone the writer thread ends, which
\* closes the vote channel, the responder ends, and a join that was called
\* returns.  The vote channel is closed by nothing but the end of the writer
\* thread.
C7_DisconnectionTerminates ==
    /\ (~sendersOpen) ~> (pc = "done" /\ ~voteSenderOpen /\ responder = "done")
    /\ (~sendersOpen /\ joinPc # "idle") ~> (joinPc = "ok")
    /\ [](~voteSenderOpen => pc = "done")
    /\ [](responder = "done" => ~voteSenderOpen)
    /\ [](joinPc = "ok" => (pc = "done" /\ responder = "done"))

\* join has returned
C7_Witness ==
    /\ ~sendersOpen
    /\ joinPc = "ok"

\* rounds that returned an error so far, by the batch that failed
Failures == Cardinality(FailedWrites \cup FailedSends)

\* the batch went through insert_votes, write_entries and, unless it is
\* empty, the downstream send
Processed(k) ==
    /\ k \in Ids(mergeCalls)
    /\ \E j \in 1..Len(ledger) :
          /\ ledger[j].id = k
          /\ ledger[j].len > 0 => k \in Ids(forwarded)
          /\ ledger[j].len = 0 => ~(pc = "send" /\ cur.id = k)

\* the batch failed its own write or send, or was dropped unpopped because
\* another batch of its round failed
HitByFailure(k) == k \in FailedWrites \cup FailedSends \cup dropped

C9_VoteOncePerIteration ==
    [][(pc' \in {"recv", "done"} /\ pc \notin {"recv", "done"}) =>
          voteCalls' = 1]_vars

\* C9 amended: a turn of the loop whose round returned Ok, Timeout or an
\* error other than Disconnected calls send_leader_vote exactly once before
\* the next turn; the turn whose round returned Disconnected leaves the loop
\* without calling it.
C9_VoteOnceUnlessDisconnected ==
    /\ [](voteCalls <= 1)
    /\ [][/\ (pc' = "recv" /\ pc # "recv") => voteCalls' = 1
          /\ (pc' = "done" /\ pc # "done") =>
                (voteCalls' = 0 /\ result = "Disconnected")
          /\ (pc = "classify" /\ result # "Disconnected") =>
                (pc' \in {"classify", "vote"} /\ voteCalls' = 0)]_vars

\* a turn whose round failed has called send_leader_vote and ended
C9_Witness ==
    /\ pc = "recv"
    /\ voteCalls = 1
    /\ Failures > 0

\* C10: the batches that were on the incoming channel when recv_timeout
\* returned are all in the round's pending queue, in order and right after
\* the first batch, when the per-batch loop starts; the drain ends only on
\* an empty channel, and the loop is set to take every batch of the queue.
C10_Coalescing ==
    /\ [](/\ pc = "drain" =>
               /\ ventries # <<>>
               /\ SubSeq(ventries \o incoming, 2, Len(atRecv) + 1) = atRecv
          /\ (pc = "loop" /\ i = 0) =>
               /\ Len(ventries) >= Len(atRecv) + 1
               /\ SubSeq(ventries, 2, Len(atRecv) + 1) = atRecv
               /\ n = Len(ventries)
          /\ pc \in {"loop", "lock", "insert", "write", "send"} =>
               /\ Len(ventries) = n - i
               /\ Ids(atRecv) \subseteq Ids(ventries) \cup Ids(RoundPopped))
    /\ [][/\ (pc = "recv" /\ pc' = "drain") =>
                (ventries' = <<Head(incoming)>> /\ atRecv' = Tail(incoming))
          /\ (pc = "drain" /\ pc' # "drain") =>
                (incoming = <<>> /\ pc' = "loop")]_vars

\* a round starts its per-batch loop with a queue that holds a batch which
\* was waiting behind the first one
C10_Witness ==
    /\ pc = "loop"
    /\ i = 0
    /\ atRecv # <<>>
    /\ Len(ventries) >= 2

\* C11: a failed write_entries ends the round at once with the error: the
\* failing batch is neither in the ledger nor forwarded, and the batches
\* that were still in the pending queue are dropped with it and are never
\* merged, written, forwarded or queued again.
C11_WriteFailureAbandonsRound ==
    /\ [](/\ \A k \in FailedWrites :
               k \notin Ids(ledger) /\ k \notin Ids(forwarded)
          /\ \A k \in dropped :
               /\ k \notin Ids(mergeCalls)
               /\ k \notin Ids(writeCalls)
               /\ k \notin Ids(forwarded)
               /\ k \notin Ids(popped)
               /\ k \notin Ids(ventries) \cup Ids(incoming)
               /\ k # cur.id)
    /\ [][(Len(writeCalls') > Len(writeCalls)
            /\ ~writeCalls'[Len(writeCalls')].ok) =>
              /\ pc = "write" /\ pc' = "classify"
              /\ result' = "Other"
              /\ dropped' = dropped \cup Ids(ventries)
              /\ ventries' = <<>>
              /\ UNCHANGED <<ledger, forwarded, directory, mergeCalls>>]_vars

\* a write failed with a batch pending behind it, and the loop is back at
\* the start of a round
C11_Witness ==
    /\ FailedWrites # {}
    /\ dropped # {}
    /\ FailedSends = {}
    /\ pc = "recv"

\* C12: the stage holds the crdt lock exactly while it is at insert_votes;
\* at write_entries the lock is not the stage's, and when it is free another
\* component can take it.
C12_LockNotHeldDuringWrite ==
    /\ [](crdtLock = "stage" <=> pc = "insert")
    /\ [](pc = "write" => crdtLock # "stage")
    /\ []((pc = "write" /\ crdtLock = "free") => ENABLED OtherLock)

\* another component holds the lock while the stage is at write_entries
C12_Witness ==
    /\ pc = "write"
    /\ crdtLock = "other"

\* C13: a batch written in an earlier round than another was received
\* before it: every write_entries call of an earlier round is for a batch
\* that precedes, in arrival order, every batch of the round in progress.
C13_ArrivalOrderAcrossRounds ==
    [](pc \in {"drain", "loop", "lock", "insert", "write", "send"} =>
          \A w \in Ids(ledger) \ Ids(RoundPopped) :
              \A b \in Ids(RoundPopped) \cup Ids(ventries) : w < b)

\* the second of two rounds has written its batch
C13_Witness ==
    /\ pc = "send"
    /\ i = 1
    /\ Ids(ledger) \ Ids(RoundPopped) # {}
    /\ cur.id \in Ids(ledger)

\* C14 as stated: when a round returns, insert_votes has been called
\* exactly once for every batch with entries that the round received,
\* whether it popped the batch or still had it in the pending queue.
C14_MergeOncePerReceivedBatch ==
    [][(pc' = "classify" /\ pc \notin {"classify", "recv"}) =>
          /\ \A k \in 1..Len(ventries) :
                ventries[k].len > 0 =>
                    Count(mergeCalls', ventries[k].id) = 1
          /\ \A k \in 1..Len(RoundPopped) :
                RoundPopped[k].len > 0 =>
                    Count(mergeCalls', RoundPopped[k].id) = 1]_vars

\* C14 amended: insert_votes is called at most once for any batch, exactly
\* once for every batch with entries that a round has popped, and never for
\* a batch that was dropped with the pending queue by a round that returned
\* an error.
C14_MergeOncePerPoppedBatch ==
    [](/\ \A k \in 1..sent :
            /\ Count(mergeCalls, k) <= 1
            /\ k \in dropped => Count(mergeCalls, k) = 0
       /\ \A j \in 1..Len(popped) :
            (popped[j].len > 0 /\ ~(cur = popped[j] /\ pc \in {"lock", "insert"}))
               => Count(mergeCalls, popped[j].id) = 1
       /\ \A j \in 1..Len(mergeCalls) : mergeCalls[j].id \in Ids(popped))

\* a batch with entries was merged, and another batch was dropped unmerged
C14_Witness ==
    /\ dropped # {}
    /\ \E j \in 1..Len(mergeCalls) : mergeCalls[j].len > 0
    /\ pc = "classify"

\* C15: a send_leader_vote call that returns an error changes only the
\* throttle state it was given: the thread goes to the next round, and the
\* ledger, the directory, the downstream channel and the incoming channel
\* are as before.
C15_VoteFailureNotPropagated ==
    /\ [](voteErr => (pc = "recv" /\ voteCalls = 1))
    /\ [][(pc = "vote" /\ voteErr') =>
             /\ pc' = "recv"
             /\ UNCHANGED <<ledger, writeCalls, directory, mergeCalls,
                            forwarded, incoming, voteSenderOpen>>]_vars
    /\ [][(voteErr /\ pc' # pc) => pc' \in {"drain", "classify"}]_vars

\* the leader vote failed after a round that wrote and forwarded a batch,
\* and the loop is at the start of its next round
C15_Witness ==
    /\ voteErr
    /\ pc = "recv"
    /\ forwarded # <<>>
    /\ FailedWrites = {}

\* C16: a send that fails ends the round with an error: the failing batch is
\* already in the ledger and is not on the downstream channel, the batches
\* still pending are dropped, and the loop goes on to the leader vote.
C16_SendFailureAbandonsRound ==
    /\ [](FailedSends \subseteq (OkWrites \ Ids(forwarded)))
    /\ [][(pc = "send" /\ pc' # "send" /\ cur.len > 0 /\ ~downstreamOpen) =>
             /\ cur.id \in Ids(ledger)
             /\ cur.id \in FailedSends'
             /\ result' = "Other"
             /\ pc' = "classify"
             /\ dropped' = dropped \cup Ids(ventries)
             /\ ventries' = <<>>
             /\ UNCHANGED <<forwarded, ledger>>]_vars
    /\ [][(pc = "classify" /\ result = "Other" /\ pc' # pc) => pc' = "vote"]_vars

\* a send failed with a batch pending behind it, and the loop is back at
\* the start of a round
C16_Witness ==
    /\ FailedSends # {}
    /\ FailedWrites = {}
    /\ dropped # {}
    /\ pc = "recv"

\* C17: the two timestamps of the vote throttle are zero until the first
\* send_leader_vote call, and only the step that calls send_leader_vote
\* changes them: every step of a round, and every step of another thread,
\* leaves both as they are.
C17_ThrottleStateFrame ==
    /\ []((pc = "recv" /\ voteCalls = 0) =>
             (last_vote = 0 /\ last_valid_validator_timestamp = 0))
    /\ [][(pc # "vote" \/ pc' # "recv") =>
             /\ last_vote' = last_vote
             /\ last_valid_validator_timestamp' =
                   last_valid_validator_timestamp]_vars

\* a round is at write_entries with timestamps that an earlier
\* send_leader_vote call has set
C17_Witness ==
    /\ pc = "write"
    /\ last_vote > 0
    /\ last_valid_validator_timestamp > 0

\* C18: the votes of every batch that went through insert_votes are in the
\* directory, also when its write_entries call failed afterwards: the
\* failing call and the return from the round leave the directory as it is.
C18_FailedWriteKeepsVotes ==
    /\ [](\A j \in 1..Len(mergeCalls) :
             mergeCalls[j].id \in FailedWrites =>
                /\ VotesOf(mergeCalls[j]) \subseteq directory
                /\ mergeCalls[j].id \notin Ids(ledger)
                /\ mergeCalls[j].id \notin Ids(forwarded))
    /\ [](FailedWrites \subseteq Ids(mergeCalls))
    /\ [][directory \subseteq directory']_vars

\* the directory holds a vote of a batch that is neither in the ledger nor
\* on the downstream channel
C18_Witness ==
    \E v \in directory :
        /\ v[1] \in FailedWrites
        /\ v[1] \notin Ids(ledger)
        /\ v[1] \notin Ids(forwarded)
        /\ pc = "recv"

\* the batches on the downstream channel, as the ledger orders them
LedgerForwarded == SelectSeq(ledger, LAMBDA b : b.id \in Ids(forwarded))

\* the batches of the ledger that have entries and are past their send
LedgerSendable ==
    SelectSeq(ledger, LAMBDA b : b.len > 0 /\ ~(pc = "send" /\ cur = b))

\* C19: the downstream channel holds a subsequence of the ledger, in the
\* ledger's order; as long as no send has failed it holds exactly the
\* batches of the ledger that have entries, but for the batch that is
\* between its write and its send.
C19_ForwardedSubsequenceOfLedger ==
    [](/\ LedgerForwarded = forwarded
       /\ FailedSends = {} => forwarded = LedgerSendable)

\* no send has failed, a batch is on the downstream channel and the ledger
\* holds a batch without entries that is not
C19_Witness ==
    /\ FailedSends = {}
    /\ forwarded # <<>>
    /\ \E j \in 1..Len(ledger) :
          ledger[j].len = 0 /\ ledger[j].id \notin Ids(forwarded)

\* C20: when the writer thread has left its loop and no write and no send
\* has failed, every batch the upstream stage sent is in the ledger exactly
\* once and was neither dropped nor left on the channel; a round returns
\* Disconnected only on a channel that is closed and empty.
C20_CleanShutdownLosesNothing ==
    /\ []((pc = "done" /\ FailedWrites = {} /\ FailedSends = {}) =>
             /\ \A k \in 1..sent : Count(ledger, k) = 1
             /\ incoming = <<>>
             /\ dropped = {})
    /\ [][(result' = "Disconnected" /\ result # "Disconnected") =>
             (incoming = <<>> /\ ~sendersOpen /\ incoming' = <<>>)]_vars

\* the loop has ended without a failure and every batch sent is in the
\* ledger
C20_Witness ==
    /\ pc = "done"
    /\ sent = MaxBatches
    /\ FailedWrites = {}
    /\ FailedSends = {}
    /\ Len(ledger) = sent
====
